---- MODULE Spec2Model ----
(***************************************************************************)
(* Model of the ingestion script (src/unnamed/part_000): main,             *)
(* loadSampleData, scrapePage and the three embedding tiers.  The script   *)
(* is one thread of control; every action below is one statement group of  *)
(* the script between two control points, selected by pc.  External calls  *)
(* (the page loader, the text splitter, the two HTTP endpoints, the store) *)
(* return or throw nondeterministically.                                   *)
(*                                                                         *)
(* A vector is kept as [tier, len, raw]: the tier that produced it, its    *)
(* length, and the length of the array the API sent (for the synthetic     *)
(* tier: the 32-bit hash its components are derived from).  Strings are    *)
(* sequences of UTF-16 code units.                                         *)
(***************************************************************************)
EXTENDS Integers, Sequences, FiniteSets, TLC

\* ------------------------------------------------------------------ bounds
\* number of entries of f1data that are modelled
NumUrls == 2
\* longest chunk list the splitter returns
MaxChunks == 2
\* embeddings of length 0..RecShort, and of length within RecNear of the
\* target, are reconciled
RecShort == 20
RecNear == 8

\* ------------------------------------------------------- program constants
VECTOR_DIMENSION == 1536
maxRetries == 3
MinChunkLength == 10
MpnetDimension == 768
PrimaryPadTo == 1536
LargeDimension == 1536
SyntheticDimension == 1536

f1data == [k \in 1..NumUrls |-> k]

\* ------------------------------------------------------------ sample texts
\* "Max Verstappen"
TextDriver == <<77, 97, 120, 32, 86, 101, 114, 115, 116, 97, 112, 112, 101, 110>>
\* "  F1 2025   " : 12 code units, 7 after trim
TextPadded == <<32, 32, 70, 49, 32, 50, 48, 50, 53, 32, 32, 32>>
ChunkTexts == {TextDriver, TextPadded}

\* "<b>F1</b>"
PageMarkup == <<60, 98, 62, 70, 49, 60, 47, 98, 62>>
\* "<p> </p>\n" : nothing but markup and white space
PageBlank == <<60, 112, 62, 32, 60, 47, 112, 62, 10>>
\* " F1 <a hre" : an unclosed tag at the end
PageUnclosed == <<32, 70, 49, 32, 60, 97, 32, 104, 114, 101>>
Pages == {PageMarkup, PageBlank, PageUnclosed}

\* lengths of the arrays the embedding endpoints may answer with
ApiLens == {0, 768, 1024, 1536, 2048}
\* response.data: a flat array, an array whose first element is an array,
\* or anything that is not an array
ApiData == [kind : {"flat", "nested"}, len : ApiLens] \cup {[kind |-> "other", len |-> 0]}

\* --------------------------------------------------------- string helpers
IsWhiteSpace(c) == c \in {9, 10, 11, 12, 13, 32, 160}

RECURSIVE TrimStart(_)
TrimStart(s) ==
  IF s = <<>> THEN s
  ELSE IF IsWhiteSpace(Head(s)) THEN TrimStart(Tail(s)) ELSE s

RECURSIVE TrimEnd(_)
TrimEnd(s) ==
  IF s = <<>> THEN s
  ELSE IF IsWhiteSpace(s[Len(s)]) THEN TrimEnd(SubSeq(s, 1, Len(s) - 1)) ELSE s

\* String.prototype.trim
Trim(s) == TrimEnd(TrimStart(s))

\* result.replace(/<[^>]*>?/gm, ''): from each '<' up to and including the
\* next '>', or up to the end of the string when there is none
RECURSIVE StripTags(_, _)
StripTags(s, inTag) ==
  IF s = <<>> THEN <<>>
  ELSE IF inTag
       THEN IF Head(s) = 62 THEN StripTags(Tail(s), FALSE) ELSE StripTags(Tail(s), TRUE)
       ELSE IF Head(s) = 60 THEN StripTags(Tail(s), TRUE)
            ELSE <<Head(s)>> \o StripTags(Tail(s), FALSE)

\* ------------------------------------------------- 32-bit integer helpers
\* a 32-bit word is [hi, lo], two 16-bit halves
Half == 2^16
Word0 == [hi |-> 0, lo |-> 0]

\* hash << 5
Shl5(w) ==
  LET l == w.lo * 32
  IN  [hi |-> (w.hi * 32 + (l \div Half)) % Half, lo |-> l % Half]

\* a - b, modulo 2^32
Sub32(a, b) ==
  LET l == a.lo - b.lo
      borrow == IF l < 0 THEN 1 ELSE 0
  IN  [hi |-> (a.hi - b.hi - borrow) % Half, lo |-> l % Half]

\* a + c for a code unit c, modulo 2^32
Add32(a, c) ==
  LET l == a.lo + c
  IN  [hi |-> (a.hi + (l \div Half)) % Half, lo |-> l % Half]

\* the signed value of a word (hash & hash)
ToInt32(w) ==
  IF w.hi >= Half \div 2 THEN (w.hi - Half) * Half + w.lo ELSE w.hi * Half + w.lo

\* the loop over the code units; each round's hash is bound to its value
\* before the next round starts
RECURSIVE HashFrom(_, _)
HashFrom(w, text) ==
  IF text = <<>> THEN w
  ELSE CHOOSE h \in {HashFrom(next, rest) : next \in {Add32(Sub32(Shl5(w), w), Head(text))},
                                            rest \in {Tail(text)}} : TRUE

TextHash(text) == ToInt32(HashFrom(Word0, text))

\* ------------------------------------------------------------------ vectors
NoVector == [tier |-> "none", len |-> 0, raw |-> 0]

\* !vector, !content, !result
IsUndefined(v) == v.tier = "none"
\* variant: only null or undefined counts as empty, '' does not
IsEmptyString_NullOnly(s) == FALSE

IsEmptyString(s) == Len(s) = 0

\* Array.isArray(embedding) && Array.isArray(embedding[0]) => embedding[0]
Unwrap(data) == IF data.kind = "nested" THEN [kind |-> "flat", len |-> data.len] ELSE data

\* what getOpenAIEmbedding returns for a response
PrimaryResult(data) ==
  LET e == Unwrap(data)
  IN  IF e.kind = "flat"
      THEN IF e.len = MpnetDimension
           THEN [tier |-> "primary", len |-> e.len + (PrimaryPadTo - MpnetDimension), raw |-> e.len]
           ELSE [tier |-> "primary", len |-> e.len, raw |-> e.len]
      ELSE NoVector

\* what getLargeEmbedding returns for a response
LargeResult(data) ==
  LET e == Unwrap(data)
  IN  IF e.kind = "flat"
      THEN IF e.len < LargeDimension
           THEN [tier |-> "secondary", len |-> e.len + (LargeDimension - e.len), raw |-> e.len]
           ELSE IF e.len > LargeDimension
                THEN [tier |-> "secondary", len |-> LargeDimension, raw |-> e.len]
                ELSE [tier |-> "secondary", len |-> e.len, raw |-> e.len]
      ELSE NoVector

\* variant: the padding has the target's length, not the missing length
Reconcile_PadFull(e) ==
  IF Len(e) < LargeDimension
  THEN e \o [k \in 1..LargeDimension |-> 0]
  ELSE IF Len(e) > LargeDimension
       THEN SubSeq(e, 1, LargeDimension)
       ELSE e

\* the components getLargeEmbedding returns for a flat array e: padded with
\* zeros, sliced to the first 1536, or e itself
Reconcile(e) ==
  IF Len(e) < LargeDimension
  THEN e \o [k \in 1..(LargeDimension - Len(e)) |-> 0]
  ELSE IF Len(e) > LargeDimension
       THEN SubSeq(e, 1, LargeDimension)
       ELSE e

\* flat arrays the secondary endpoint may answer with: short ones and ones
\* around the target length, all zero or with distinct components
ReconcileLens == (0..RecShort) \cup ((LargeDimension - RecNear)..(LargeDimension + RecNear))
ReconcileInputs == {[k \in 1..n |-> k * f] : n \in ReconcileLens, f \in {0, 1}}

\* variant: the component loop stops one short
createSyntheticEmbedding_OneShort(text) ==
  [tier |-> "synthetic", len |-> SyntheticDimension - 1, raw |-> TextHash(text)]

createSyntheticEmbedding(text) ==
  [tier |-> "synthetic", len |-> SyntheticDimension, raw |-> TextHash(text)]

\* variant: the dimension check lets every vector through
DimensionMismatch_Unchecked(v) == FALSE

\* vector.length !== VECTOR_DIMENSION
DimensionMismatch(v) == v.len # VECTOR_DIMENSION

\* variant: the length is taken without trim()
TooShort_Untrimmed(chunk) == Len(chunk) < MinChunkLength

\* chunk.trim().length < 10
TooShort(chunk) == Len(Trim(chunk)) < MinChunkLength

\* variant: the delay is also taken after the last attempt
CanRetry_AlsoLast(a) == a <= maxRetries

\* attempt < maxRetries
CanRetry(a) == a < maxRetries

\* variant: the retry loop stops one attempt early
InLoop_OneShort(a) == a < maxRetries

\* attempt <= maxRetries
InLoop(a) == a <= maxRetries

\* ------------------------------------------------------------------- state
VARIABLES
  pc,            \* control point of the script
  urlIdx,        \* position of `url` in f1data (for ... of)
  content,       \* loadSampleData: content
  chunks,        \* loadSampleData: chunks
  i,             \* loadSampleData: i
  attempt,       \* getOpenAIEmbedding: attempt
  vector,        \* loadSampleData: vector
  successCount,
  errorCount,
  calls,         \* per chunk: the requests, delays and tier calls made for it, in order
  primaryRet,    \* per chunk: what getOpenAIEmbedding returned ("pending" before)
  secondaryRet,  \* per chunk: what getLargeEmbedding returned ("pending" before)
  scraped,       \* the urls handed to scrapePage, in order
  splitCalls,    \* this iteration: calls of splitter.splitText
  insertLog,     \* this iteration: the records handed to collection.insertOne, in order
  eligible,      \* chunks for which the try block was entered
  acked,         \* insertOne calls that resolved
  threw,         \* insertOne calls that threw
  mismatches,    \* vectors the dimension check rejected
  reportCount,   \* "Success: .. Errors: .." lines printed
  lastReport,    \* the last such line
  paces,         \* pacing delays taken
  skipped,       \* urls skipped for empty content
  synthFirst,    \* this iteration: the first call of createSyntheticEmbedding
  recIn,         \* dimension handling on its own: the array it is given
  recOut         \* dimension handling on its own: the results of successive applications

vars == <<pc, urlIdx, content, chunks, i, attempt, vector, successCount, errorCount,
          calls, primaryRet, secondaryRet, scraped, splitCalls, insertLog,
          eligible, acked, threw, mismatches, reportCount, lastReport,
          paces, skipped, synthFirst, recIn, recOut>>

loopVars == <<urlIdx, content, chunks, i>>
chunkVars == <<attempt, vector, calls, primaryRet, secondaryRet>>
countVars == <<successCount, errorCount>>
tallyVars == <<eligible, acked, threw, mismatches>>
reportVars == <<reportCount, lastReport>>
histVars == <<scraped, splitCalls, insertLog, tallyVars, reportVars>>
recVars == <<recIn, recOut>>
auxVars == <<paces, skipped, synthFirst, recVars>>

\* createSyntheticEmbedding has not been called yet
NoSynthetic == [text |-> <<>>, vector |-> NoVector, index |-> 0]

url == f1data[urlIdx]
chunk == chunks[i + 1]

ChunkLists == UNION {[1..n -> ChunkTexts] : n \in 0..MaxChunks}

Init ==
  /\ pc = "main"
  /\ urlIdx = 1
  /\ content = <<>>
  /\ chunks = <<>>
  /\ i = 0
  /\ attempt = 1
  /\ vector = NoVector
  /\ successCount = 0
  /\ errorCount = 0
  /\ calls = <<>>
  /\ primaryRet = "pending"
  /\ secondaryRet = "pending"
  /\ scraped = <<>>
  /\ splitCalls = 0
  /\ insertLog = <<>>
  /\ eligible = 0
  /\ acked = 0
  /\ threw = 0
  /\ mismatches = 0
  /\ reportCount = 0
  /\ lastReport = [kind |-> "none", success |-> 0, errors |-> 0]
  /\ paces = 0
  /\ skipped = 0
  /\ synthFirst = NoSynthetic
  /\ recIn = <<>>
  /\ recOut = <<>>

\* ------------------------------------------------------------------- main
\* await recreateCollection('cosine'): dropCollection or createCollection may
\* throw, which recreateCollection rethrows into main's catch
RecreateCollection ==
  /\ pc = "main"
  /\ \E ok \in BOOLEAN : pc' = IF ok THEN "load" ELSE "fatal"
  /\ UNCHANGED <<loopVars, chunkVars, countVars, histVars, auxVars>>

\* loadSampleData: db.collection(..), successCount = 0, errorCount = 0
LoadStart ==
  /\ pc = "load"
  /\ successCount' = 0
  /\ errorCount' = 0
  /\ urlIdx' = 1
  /\ pc' = "forUrl"
  /\ UNCHANGED <<content, chunks, i, chunkVars, histVars, auxVars>>

\* variant: the two counts are printed in each other's place
Report_Swapped(kind) ==
  /\ reportCount' = reportCount + 1
  /\ lastReport' = [kind |-> kind, success |-> errorCount, errors |-> successCount]

\* console.log of the counts
Report(kind) ==
  /\ reportCount' = reportCount + 1
  /\ lastReport' = [kind |-> kind, success |-> successCount, errors |-> errorCount]

\* for (const url of f1data): the next url is handed to scrapePage
NextUrl ==
  /\ pc = "forUrl"
  /\ urlIdx <= Len(f1data)
  /\ scraped' = Append(scraped, url)
  /\ pc' = "scrape"
  /\ UNCHANGED <<loopVars, chunkVars, countVars, splitCalls, insertLog, tallyVars, reportVars, auxVars>>

\* the list is exhausted: the final results line, then main's last line
FinalReport ==
  /\ pc = "forUrl"
  /\ urlIdx > Len(f1data)
  /\ Report("final")
  /\ pc' = "done"
  /\ UNCHANGED <<loopVars, chunkVars, countVars, scraped, splitCalls, insertLog, tallyVars, auxVars>>

\* ------------------------------------------------------------- scrapePage
\* what loader.scrape() does: throws, resolves to nothing, or to a page
ScrapeOutcomes ==
  {[kind |-> k, result |-> <<>>] : k \in {"throws", "nothing"}}
    \cup {[kind |-> "page", result |-> p] : p \in Pages}

\* the catch and the !result test return '', a page is stripped and trimmed
scrapePage(outcome) ==
  IF outcome.kind = "throws" THEN <<>>
  ELSE IF IsEmptyString(outcome.result) THEN <<>>
  ELSE Trim(StripTags(outcome.result, FALSE))

ScrapePage ==
  /\ pc = "scrape"
  /\ \E outcome \in ScrapeOutcomes : content' = scrapePage(outcome)
  /\ pc' = "checkContent"
  /\ UNCHANGED <<urlIdx, chunks, i, chunkVars, countVars, histVars, auxVars>>

\* if (!content) continue
SkipEmptyUrl ==
  /\ pc = "checkContent"
  /\ IsEmptyString(content)
  /\ urlIdx' = urlIdx + 1
  /\ content' = <<>>
  /\ skipped' = skipped + 1
  /\ pc' = "forUrl"
  /\ UNCHANGED <<chunks, i, chunkVars, countVars, histVars, paces, synthFirst, recVars>>

\* await splitter.splitText(content): not inside any try of loadSampleData,
\* so an exception of the splitter reaches main's catch
SplitText ==
  /\ pc = "checkContent"
  /\ ~IsEmptyString(content)
  /\ splitCalls' = splitCalls + 1
  /\ \/ /\ \E cs \in ChunkLists : chunks' = cs
        /\ i' = 0
        /\ pc' = "forChunk"
     \/ /\ pc' = "fatal"
        /\ UNCHANGED <<chunks, i>>
  /\ UNCHANGED <<urlIdx, content, chunkVars, countVars, scraped, insertLog, tallyVars, reportVars, auxVars>>

\* ---------------------------------------------------------- the chunk loop
\* the per-chunk locals and the per-chunk history start afresh
FreshChunk ==
  /\ attempt' = 1
  /\ vector' = NoVector
  /\ calls' = <<>>
  /\ primaryRet' = "pending"
  /\ secondaryRet' = "pending"

\* i === chunks.length: the "URL completed" line, then the next url; content
\* and chunks are scoped to one iteration
UrlCompleted ==
  /\ pc = "forChunk"
  /\ i >= Len(chunks)
  /\ Report("url")
  /\ urlIdx' = urlIdx + 1
  /\ content' = <<>>
  /\ chunks' = <<>>
  /\ i' = 0
  /\ splitCalls' = 0
  /\ insertLog' = <<>>
  /\ synthFirst' = NoSynthetic
  /\ pc' = "forUrl"
  /\ UNCHANGED <<chunkVars, countVars, scraped, tallyVars, paces, skipped, recVars>>

\* if (chunk.trim().length < 10) continue
SkipShortChunk ==
  /\ pc = "forChunk"
  /\ i < Len(chunks)
  /\ TooShort(chunk)
  /\ i' = i + 1
  /\ pc' = "forChunk"
  /\ UNCHANGED <<urlIdx, content, chunks, chunkVars, countVars, histVars, auxVars>>

\* the try block is entered and getOpenAIEmbedding(chunk) is called
BeginChunk ==
  /\ pc = "forChunk"
  /\ i < Len(chunks)
  /\ ~TooShort(chunk)
  /\ FreshChunk
  /\ eligible' = eligible + 1
  /\ pc' = "primary"
  /\ UNCHANGED <<loopVars, countVars, scraped, splitCalls, insertLog, acked, threw, mismatches, reportVars, auxVars>>

\* where loadSampleData goes on with what a tier returned: if (!vector) the
\* next tier, else the dimension check
\* variant: an empty array counts as no result
AfterPrimary_EmptyIsFalsy(v) == IF IsUndefined(v) \/ v.len = 0 THEN "secondary" ELSE "verify"

AfterPrimary(v) == IF IsUndefined(v) THEN "secondary" ELSE "verify"
AfterSecondary(v) == IF IsUndefined(v) THEN "synthetic" ELSE "verify"

\* getOpenAIEmbedding: one axios.post of the retry loop and what follows it
PrimaryReturn(v) ==
  /\ vector' = v
  /\ primaryRet' = IF v = NoVector THEN "undefined" ELSE "vector"
  /\ pc' = AfterPrimary(v)
  /\ UNCHANGED attempt

PrimaryRequest ==
  /\ pc = "primary"
  /\ \/ \* the request throws: wait and go round again, or give up
        /\ calls' = Append(calls, "primary.throw")
        /\ IF CanRetry(attempt)
           THEN /\ pc' = "retryDelay"
                /\ UNCHANGED <<attempt, vector, primaryRet>>
           ELSE IF InLoop(attempt + 1)
                THEN /\ attempt' = attempt + 1
                     /\ pc' = "primary"
                     /\ UNCHANGED <<vector, primaryRet>>
                ELSE PrimaryReturn(NoVector)
     \/ \* the request is answered
        \E data \in ApiData :
          /\ calls' = Append(calls, IF Unwrap(data).kind = "flat" THEN "primary.array" ELSE "primary.other")
          /\ PrimaryReturn(PrimaryResult(data))
  /\ UNCHANGED <<secondaryRet, loopVars, countVars, histVars, auxVars>>

\* await new Promise(resolve => setTimeout(resolve, retryDelay)); attempt++
RetryDelay ==
  /\ pc = "retryDelay"
  /\ calls' = Append(calls, "delay")
  /\ IF InLoop(attempt + 1)
     THEN /\ attempt' = attempt + 1
          /\ pc' = "primary"
          /\ UNCHANGED <<vector, primaryRet>>
     ELSE PrimaryReturn(NoVector)
  /\ UNCHANGED <<secondaryRet, loopVars, countVars, histVars, auxVars>>

\* getLargeEmbedding: its single axios.post
SecondaryRequest ==
  /\ pc = "secondary"
  /\ \E v \in {NoVector} \cup {LargeResult(data) : data \in ApiData} :
       /\ vector' = v
       /\ secondaryRet' = IF v = NoVector THEN "undefined" ELSE "vector"
       /\ pc' = AfterSecondary(v)
  /\ calls' = Append(calls, "secondary")
  /\ UNCHANGED <<attempt, primaryRet, loopVars, countVars, histVars, auxVars>>

\* variant: hash is declared outside the function, so a call starts from the
\* hash the earlier call ended with
Synthetic_HoistedHash ==
  /\ pc = "synthetic"
  /\ vector' = [createSyntheticEmbedding(chunk) EXCEPT
                  !.raw = ToInt32(HashFrom(IF synthFirst = NoSynthetic THEN Word0
                                           ELSE HashFrom(Word0, synthFirst.text), chunk))]
  /\ calls' = Append(calls, "synthetic")
  /\ synthFirst' = IF synthFirst = NoSynthetic
                   THEN [text |-> chunk, vector |-> vector', index |-> i]
                   ELSE synthFirst
  /\ pc' = "verify"
  /\ UNCHANGED <<attempt, primaryRet, secondaryRet, loopVars, countVars, histVars,
                 paces, skipped, recVars>>

\* vector = createSyntheticEmbedding(chunk)
Synthetic ==
  /\ pc = "synthetic"
  /\ vector' = createSyntheticEmbedding(chunk)
  /\ calls' = Append(calls, "synthetic")
  /\ synthFirst' = IF synthFirst = NoSynthetic
                   THEN [text |-> chunk, vector |-> vector', index |-> i]
                   ELSE synthFirst
  /\ pc' = "verify"
  /\ UNCHANGED <<attempt, primaryRet, secondaryRet, loopVars, countVars, histVars,
                 paces, skipped, recVars>>

\* variant: the mismatch branch throws after errorCount++, so the catch
\* counts the chunk a second time
RejectMismatch_Thrown ==
  /\ pc = "verify"
  /\ DimensionMismatch(vector)
  /\ errorCount' = errorCount + 2
  /\ mismatches' = mismatches + 1
  /\ i' = i + 1
  /\ FreshChunk
  /\ pc' = "forChunk"
  /\ UNCHANGED <<urlIdx, content, chunks, successCount, scraped, splitCalls, insertLog,
                 eligible, acked, threw, reportVars, auxVars>>

\* if (vector.length !== VECTOR_DIMENSION) { errorCount++; continue }
RejectMismatch ==
  /\ pc = "verify"
  /\ DimensionMismatch(vector)
  /\ errorCount' = errorCount + 1
  /\ mismatches' = mismatches + 1
  /\ i' = i + 1
  /\ FreshChunk
  /\ pc' = "forChunk"
  /\ UNCHANGED <<urlIdx, content, chunks, successCount, scraped, splitCalls, insertLog,
                 eligible, acked, threw, reportVars, auxVars>>

\* the vector has the store's dimension: collection.insertOne is called
VerifyOk ==
  /\ pc = "verify"
  /\ ~DimensionMismatch(vector)
  /\ pc' = "insert"
  /\ UNCHANGED <<loopVars, chunkVars, countVars, histVars, auxVars>>

\* variant: chunk_index counts the records written, not the chunks seen
Record_Renumbered(ok) ==
  [vectorLen |-> vector.len, tier |-> vector.tier, text |-> chunk,
   source_url |-> url, chunk_index |-> Len(insertLog), ok |-> ok]

\* the record handed to insertOne, and whether the store acknowledged it
Record(ok) ==
  [vectorLen |-> vector.len, tier |-> vector.tier, text |-> chunk,
   source_url |-> url, chunk_index |-> i, ok |-> ok]

\* variant: the pacing delay is left out after a successful insert
InsertAcked_Unpaced ==
  /\ pc = "insert"
  /\ insertLog' = Append(insertLog, Record(TRUE))
  /\ acked' = acked + 1
  /\ successCount' = successCount + 1
  /\ i' = i + 1
  /\ FreshChunk
  /\ pc' = "forChunk"
  /\ UNCHANGED <<urlIdx, content, chunks, errorCount, scraped, splitCalls, eligible, threw,
                 mismatches, reportVars, auxVars>>

\* insertOne resolves: successCount++, then the pacing delay is awaited
InsertAcked ==
  /\ pc = "insert"
  /\ insertLog' = Append(insertLog, Record(TRUE))
  /\ acked' = acked + 1
  /\ successCount' = successCount + 1
  /\ pc' = "pace"
  /\ UNCHANGED <<loopVars, chunkVars, errorCount, scraped, splitCalls, eligible, threw,
                 mismatches, reportVars, auxVars>>

\* variant: the catch tries the same chunk again
InsertThrows_Retried ==
  /\ pc = "insert"
  /\ insertLog' = Append(insertLog, Record(FALSE))
  /\ threw' = threw + 1
  /\ errorCount' = errorCount + 1
  /\ pc' = "verify"
  /\ UNCHANGED <<loopVars, chunkVars, successCount, scraped, splitCalls, eligible, acked,
                 mismatches, reportVars, auxVars>>

\* variant: no catch around the chunk body, the exception leaves the loop
InsertThrows_Uncaught ==
  /\ pc = "insert"
  /\ insertLog' = Append(insertLog, Record(FALSE))
  /\ threw' = threw + 1
  /\ pc' = "fatal"
  /\ UNCHANGED <<loopVars, chunkVars, countVars, scraped, splitCalls, eligible, acked,
                 mismatches, reportVars, auxVars>>

\* variant: successCount++ stands before the awaited insertOne
InsertThrows_SuccessFirst ==
  /\ pc = "insert"
  /\ insertLog' = Append(insertLog, Record(FALSE))
  /\ threw' = threw + 1
  /\ successCount' = successCount + 1
  /\ errorCount' = errorCount + 1
  /\ i' = i + 1
  /\ FreshChunk
  /\ pc' = "forChunk"
  /\ UNCHANGED <<urlIdx, content, chunks, scraped, splitCalls, eligible, acked,
                 mismatches, reportVars, auxVars>>

\* insertOne throws: the chunk's catch counts an error, the loop goes on
InsertThrows ==
  /\ pc = "insert"
  /\ insertLog' = Append(insertLog, Record(FALSE))
  /\ threw' = threw + 1
  /\ errorCount' = errorCount + 1
  /\ i' = i + 1
  /\ FreshChunk
  /\ pc' = "forChunk"
  /\ UNCHANGED <<urlIdx, content, chunks, successCount, scraped, splitCalls, eligible, acked,
                 mismatches, reportVars, auxVars>>

\* variant: the loop index is not advanced after the delay
PacingDelay_SameChunk ==
  /\ pc = "pace"
  /\ paces' = paces + 1
  /\ FreshChunk
  /\ pc' = "forChunk"
  /\ UNCHANGED <<loopVars, countVars, histVars, skipped, synthFirst, recVars>>

\* await new Promise(resolve => setTimeout(resolve, 200)), then i++
PacingDelay ==
  /\ pc = "pace"
  /\ paces' = paces + 1
  /\ i' = i + 1
  /\ FreshChunk
  /\ pc' = "forChunk"
  /\ UNCHANGED <<urlIdx, content, chunks, countVars, histVars, skipped, synthFirst, recVars>>

Next ==
  \/ RecreateCollection
  \/ LoadStart
  \/ NextUrl
  \/ FinalReport
  \/ ScrapePage
  \/ SkipEmptyUrl
  \/ SplitText
  \/ UrlCompleted
  \/ SkipShortChunk
  \/ BeginChunk
  \/ PrimaryRequest
  \/ RetryDelay
  \/ SecondaryRequest
  \/ Synthetic
  \/ RejectMismatch
  \/ VerifyOk
  \/ InsertAcked
  \/ InsertThrows
  \/ PacingDelay

Spec == Init /\ [][Next]_vars

\* every awaited call returns or throws, so the script always takes its next step
FairSpec == Spec /\ WF_vars(Next)

\* --------------------------------------------- the reconciliation on its own
\* getLargeEmbedding's length handling applied to an answer, and applied
\* again to what it returned
ReconcileInit ==
  /\ pc = "reconcile"
  /\ urlIdx = 1
  /\ content = <<>>
  /\ chunks = <<>>
  /\ i = 0
  /\ attempt = 1
  /\ vector = NoVector
  /\ successCount = 0
  /\ errorCount = 0
  /\ calls = <<>>
  /\ primaryRet = "pending"
  /\ secondaryRet = "pending"
  /\ scraped = <<>>
  /\ splitCalls = 0
  /\ insertLog = <<>>
  /\ eligible = 0
  /\ acked = 0
  /\ threw = 0
  /\ mismatches = 0
  /\ reportCount = 0
  /\ lastReport = [kind |-> "none", success |-> 0, errors |-> 0]
  /\ paces = 0
  /\ skipped = 0
  /\ synthFirst = NoSynthetic
  /\ recIn \in ReconcileInputs
  /\ recOut = <<>>

ReconcileFirst ==
  /\ pc = "reconcile"
  /\ recOut = <<>>
  /\ recOut' = <<Reconcile(recIn)>>
  /\ UNCHANGED <<pc, loopVars, chunkVars, countVars, histVars, paces, skipped,
                 synthFirst, recIn>>

ReconcileAgain ==
  /\ pc = "reconcile"
  /\ Len(recOut) = 1
  /\ recOut' = Append(recOut, Reconcile(recOut[1]))
  /\ UNCHANGED <<pc, loopVars, chunkVars, countVars, histVars, paces, skipped,
                 synthFirst, recIn>>

ReconcileNext == ReconcileFirst \/ ReconcileAgain

ReconcileSpec == ReconcileInit /\ [][ReconcileNext]_vars

\* ============================================================== properties
PrimaryEvents == {"primary.throw", "primary.array", "primary.other"}
HasCall(e) == \E k \in DOMAIN calls : calls[k] = e
CountCalls(es) == Cardinality({k \in DOMAIN calls : calls[k] \in es})
InChunkBody == pc \in {"primary", "retryDelay", "secondary", "synthetic", "verify", "insert", "pace"}

\* C1: every record handed to collection.insertOne, and the vector about to
\* be handed to it, has length 1536, whichever tier produced it
C1_InsertedVectorsHaveDimension ==
  /\ \A k \in DOMAIN insertLog : insertLog[k].vectorLen = 1536
  /\ pc = "insert" => vector.len = 1536

\* C1 witness: a vector was inserted in a run that also saw a vector of
\* another length come back from the embedder
C1_Witness ==
  /\ mismatches > 0
  /\ \E k \in DOMAIN insertLog : insertLog[k].ok /\ insertLog[k].vectorLen = 1536

\* C2 (as claimed): the vector the embedder chain delivers always has length
\* 1536, so the dimension-mismatch rejection is never taken
C2_MismatchNeverTaken ==
  /\ pc = "verify" => vector.len = 1536
  /\ mismatches = 0

\* C3: the secondary model is called only after the primary returned no
\* result, the synthetic tier only after both returned no result, each at most
\* once, and nothing is called after a tier has yielded a vector
C3_TiersInOrder ==
  /\ HasCall("secondary") => primaryRet = "undefined"
  /\ HasCall("synthetic") => primaryRet = "undefined" /\ secondaryRet = "undefined"
  /\ CountCalls({"secondary"}) <= 1
  /\ CountCalls({"synthetic"}) <= 1
  /\ \A j, k \in DOMAIN calls :
       j < k => /\ calls[j] = "secondary" => calls[k] = "synthetic"
                /\ calls[j] # "synthetic"
  /\ pc \in {"secondary", "synthetic"} => vector = NoVector
  /\ pc = "secondary" => primaryRet = "undefined" /\ secondaryRet = "pending"
  /\ pc = "synthetic" => primaryRet = "undefined" /\ secondaryRet = "undefined"

\* C3 witness: all three tiers were called for one chunk, in order
C3_Witness ==
  /\ pc = "verify"
  /\ vector.tier = "synthetic"
  /\ calls = <<"primary.other", "secondary", "synthetic">>

\* every primary request of the chunk threw and the primary tier has returned
AllPrimaryThrew ==
  /\ primaryRet = "undefined"
  /\ ~HasCall("primary.other")

\* C4: when every primary request throws there are exactly 3 requests with a
\* delay between consecutive ones and none after the third, then exactly one
\* secondary call, whose vector (if any) is the one inserted; the primary
\* tier never makes more than 3 requests for a chunk
C4_ThreeAttemptsThenSecondary ==
  /\ CountCalls(PrimaryEvents) <= 3
  /\ AllPrimaryThrew =>
       /\ Len(calls) >= 5
       /\ SubSeq(calls, 1, 5) = <<"primary.throw", "delay", "primary.throw", "delay", "primary.throw">>
       /\ CountCalls(PrimaryEvents) = 3
       /\ CountCalls({"delay"}) = 2
       /\ \/ pc = "secondary" /\ Len(calls) = 5
          \/ Len(calls) >= 6 /\ calls[6] = "secondary" /\ CountCalls({"secondary"}) = 1
  /\ AllPrimaryThrew /\ secondaryRet = "vector" =>
       /\ pc \in {"verify", "insert", "pace"}
       /\ vector.tier = "secondary"
       /\ vector.len = 1536
       /\ pc = "pace" => insertLog[Len(insertLog)].tier = "secondary"

\* C4 witness: three failed primary requests, the secondary vector was inserted
C4_Witness ==
  /\ pc = "pace"
  /\ AllPrimaryThrew
  /\ secondaryRet = "vector"
  /\ calls = <<"primary.throw", "delay", "primary.throw", "delay", "primary.throw", "secondary">>
  /\ insertLog[Len(insertLog)].ok

\* C5 (as claimed): getOpenAIEmbedding returns no result only after all 3
\* attempts have been made
C5_UndefinedOnlyAfterThreeAttempts ==
  primaryRet = "undefined" => CountCalls(PrimaryEvents) = 3

\* C5 (amended): the vector returned is that of the first request that is
\* answered with an array; no result is returned after 3 requests that all
\* threw, or at once when a request is answered with something that is not
\* an array, and in no other case
C5_UndefinedAfterThreeThrowsOrNonArray ==
  /\ primaryRet = "vector" =>
       /\ CountCalls({"primary.array"}) = 1
       /\ ~HasCall("primary.other")
       /\ \E k \in DOMAIN calls :
            /\ calls[k] = "primary.array"
            /\ \A j \in 1..(k - 1) : calls[j] \in {"primary.throw", "delay"}
            /\ \A j \in DOMAIN calls : j > k => calls[j] \notin PrimaryEvents
       /\ pc = "verify" => vector.tier = "primary"
  /\ primaryRet = "undefined" =>
       \/ CountCalls({"primary.throw"}) = 3 /\ CountCalls(PrimaryEvents) = 3
       \/ /\ CountCalls({"primary.other"}) = 1
          /\ \E k \in DOMAIN calls :
               /\ calls[k] = "primary.other"
               /\ \A j \in 1..(k - 1) : calls[j] \in {"primary.throw", "delay"}
               /\ \A j \in DOMAIN calls : j > k => calls[j] \notin PrimaryEvents
  /\ primaryRet = "pending" =>
       /\ CountCalls({"primary.throw"}) < 3
       /\ CountCalls({"primary.array", "primary.other"}) = 0

\* C5 witness: the first request threw, the second was answered with a
\* non-array, and the primary tier returned no result after 2 attempts
C5_Witness ==
  /\ primaryRet = "undefined"
  /\ pc = "secondary"
  /\ calls = <<"primary.throw", "delay", "primary.other">>

\* both remote tiers have returned no result for the chunk
BothRemoteTiersFailed == primaryRet = "undefined" /\ secondaryRet = "undefined"

\* C6: when both remote tiers return no result, the synthetic vector is
\* made, has length 1536, passes the dimension check and is handed to
\* insertOne; no step of that path counts an error before the insert
C6_SyntheticFallbackInserted ==
  [][BothRemoteTiersFailed =>
       /\ pc \in {"synthetic", "verify", "insert", "pace"}
       /\ pc = "synthetic" =>
            /\ pc' = "verify"
            /\ vector'.tier = "synthetic"
            /\ vector'.len = 1536
            /\ UNCHANGED <<successCount, errorCount>>
       /\ pc = "verify" =>
            /\ vector.tier = "synthetic"
            /\ pc' = "insert"
            /\ vector' = vector
            /\ UNCHANGED <<successCount, errorCount>>
       /\ pc = "insert" =>
            /\ Len(insertLog') = Len(insertLog) + 1
            /\ insertLog'[Len(insertLog')].tier = "synthetic"
            /\ insertLog'[Len(insertLog')].vectorLen = 1536
            /\ insertLog'[Len(insertLog')].text = chunk]_vars

\* C6 witness: the synthetic vector of a chunk was inserted
C6_Witness ==
  /\ pc = "pace"
  /\ BothRemoteTiersFailed
  /\ vector.tier = "synthetic"
  /\ insertLog[Len(insertLog)].tier = "synthetic"
  /\ insertLog[Len(insertLog)].ok

\* C7: an insertOne that throws adds exactly 1 to errorCount, leaves
\* successCount alone and the loop goes on with the next chunk of the same
\* url; the run still visits every url, and a run whose only error is one
\* thrown insert ends with 1 error and one success per other eligible chunk
C7_InsertFailureCountedAndContained ==
  /\ [][pc = "insert" /\ threw' = threw + 1 =>
          /\ errorCount' = errorCount + 1
          /\ successCount' = successCount
          /\ pc' = "forChunk"
          /\ i' = i + 1
          /\ urlIdx' = urlIdx
          /\ chunks' = chunks]_vars
  /\ [](pc = "done" =>
          /\ Len(scraped) = Len(f1data)
          /\ threw = 1 /\ mismatches = 0 =>
               errorCount = 1 /\ successCount = eligible - 1)

\* C7 witness: the insert of a url's first chunk threw and its second chunk
\* was inserted after it
C7_Witness ==
  /\ pc = "pace"
  /\ Len(insertLog) = 2
  /\ ~insertLog[1].ok /\ insertLog[1].chunk_index = 0
  /\ insertLog[2].ok /\ insertLog[2].chunk_index = 1
  /\ threw = 1
  /\ errorCount = 1
  /\ successCount = 1

\* C8: a chunk whose trimmed length is below 10 is skipped: no tier is
\* called for it, nothing is inserted for it, the counts stay, and the loop
\* is at the next chunk
C8_ShortChunkSkipped ==
  /\ [][pc = "forChunk" /\ i < Len(chunks) /\ Len(Trim(chunks[i + 1])) < 10 =>
          /\ pc' = "forChunk"
          /\ i' = i + 1
          /\ UNCHANGED <<successCount, errorCount, calls, insertLog, eligible, chunks>>]_vars
  /\ [](InChunkBody => Len(Trim(chunks[i + 1])) >= 10)
  /\ [](\A k \in DOMAIN insertLog : Len(Trim(insertLog[k].text)) >= 10)

\* C8 witness: a chunk of 12 code units that trims to 7 was skipped
C8_Witness ==
  /\ pc = "forChunk"
  /\ i = 1
  /\ chunks[1] = TextPadded
  /\ Len(chunks[1]) >= 10
  /\ eligible = 0
  /\ successCount = 0
  /\ errorCount = 0

\* C9: when scrapePage returns the empty string, splitText is not called for
\* that url, nothing is embedded or inserted for it, the counts stay, and the
\* loop is at the next url
C9_EmptyFetchSkipsUrl ==
  /\ [][pc = "checkContent" /\ content = <<>> =>
          /\ pc' = "forUrl"
          /\ urlIdx' = urlIdx + 1
          /\ UNCHANGED <<successCount, errorCount, splitCalls, calls, insertLog, eligible>>]_vars
  /\ [](splitCalls > 0 \/ InChunkBody \/ pc = "forChunk" => content # <<>>)

\* C9 witness: the first url was skipped for empty content and the second
\* one has been handed to scrapePage
C9_Witness ==
  /\ pc = "scrape"
  /\ urlIdx = 2
  /\ scraped = <<f1data[1], f1data[2]>>
  /\ reportCount = 0
  /\ splitCalls = 0
  /\ successCount = 0
  /\ errorCount = 0

\* C10 (as claimed): no failure of a url's fetch or chunking aborts the run:
\* main's catch is never reached once the loop over the urls has begun
C10_NoFailureAbortsRun ==
  pc = "fatal" => scraped = <<>>

\* C11: the pacing delay is entered by a successful insert and by nothing
\* else, it is taken before the next chunk starts, and a skipped chunk, a
\* dimension-mismatch rejection and a thrown insert go on without it
C11_PacingOnlyAfterSuccess ==
  /\ [][/\ pc' = "pace" <=> acked' = acked + 1
        /\ pc = "pace" => paces' = paces + 1 /\ i' = i + 1 /\ pc' = "forChunk"
        /\ paces' # paces => pc = "pace"
        /\ i' = i + 1 /\ pc # "pace" => paces' = paces /\ acked' = acked]_vars
  /\ [](paces = IF pc = "pace" THEN acked - 1 ELSE acked)

\* C11 witness: in one url a chunk was rejected for its dimension and the next
\* one was inserted and paced, so one delay for two chunks
C11_Witness ==
  /\ pc = "forChunk"
  /\ i = 2
  /\ mismatches = 1
  /\ acked = 1
  /\ paces = 1
  /\ eligible = 2

\* C12: insertOne is called at most once per chunk: the calls of one url are
\* for that url and for pairwise different chunks, a call is followed by the
\* next chunk, and the loop never goes back to a chunk or a url
C12_InsertAtMostOncePerChunk ==
  /\ [](\A j, k \in DOMAIN insertLog :
          /\ insertLog[j].source_url = f1data[urlIdx]
          /\ j # k => insertLog[j].chunk_index # insertLog[k].chunk_index)
  /\ [](\A k \in DOMAIN insertLog :
          insertLog[k].chunk_index < i \/ (pc = "pace" /\ insertLog[k].chunk_index = i))
  /\ [](pc = "insert" => \A k \in DOMAIN insertLog : insertLog[k].chunk_index # i)
  /\ [][urlIdx' >= urlIdx /\ (urlIdx' = urlIdx => i' >= i)]_vars
  /\ [](acked + threw <= eligible)

\* C12 witness: the insert of chunk 0 threw, chunk 1 was inserted, and the
\* log holds exactly one call for each
C12_Witness ==
  /\ pc = "forChunk"
  /\ i = 2
  /\ Len(insertLog) = 2
  /\ ~insertLog[1].ok
  /\ insertLog[2].ok
  /\ threw = 1
  /\ acked = 1

\* C13: both counts are 0 when loadSampleData starts its loop, and every step
\* leaves both unchanged or adds exactly 1 to exactly one of them
C13_CountersMonotone ==
  /\ [][\/ successCount' = successCount /\ errorCount' = errorCount
        \/ successCount' = successCount + 1 /\ errorCount' = errorCount
        \/ successCount' = successCount /\ errorCount' = errorCount + 1]_vars
  /\ [](scraped = <<>> => successCount = 0 /\ errorCount = 0)

\* C13 witness: both counts have been raised in one run
C13_Witness ==
  /\ successCount = 1
  /\ errorCount = 2
  /\ mismatches = 1
  /\ threw = 1
  /\ pc = "pace"

\* C14 (as claimed): the counts are printed once after every url that has been
\* handled, skipped ones included, and once more at the end
C14_ReportAfterEveryUrl ==
  /\ pc = "forUrl" => reportCount = urlIdx - 1
  /\ pc = "done" => reportCount = Len(f1data) + 1

\* C14 (amended): the counts are printed once after every url whose chunk
\* loop was run, not after a url skipped for empty content, and once more
\* when the loop over the urls has ended; each line carries the counts as
\* they are at that moment
C14_ReportAfterEveryProcessedUrl ==
  /\ [](pc \in {"forUrl", "scrape", "checkContent"} => reportCount = (urlIdx - 1) - skipped)
  /\ [](pc = "done" =>
          /\ reportCount = (Len(f1data) - skipped) + 1
          /\ lastReport = [kind |-> "final", success |-> successCount, errors |-> errorCount])
  /\ [][reportCount' # reportCount =>
          /\ reportCount' = reportCount + 1
          /\ lastReport'.success = successCount /\ lastReport'.errors = errorCount
          /\ lastReport'.kind = IF pc' = "done" THEN "final" ELSE "url"
          /\ UNCHANGED <<successCount, errorCount>>]_vars

\* C14 witness: a run with one url skipped and one processed has ended with
\* two lines printed, and the counts are not equal to each other
C14_Witness ==
  /\ pc = "done"
  /\ skipped = 1
  /\ reportCount = 2
  /\ successCount = 1
  /\ errorCount = 0

\* the run has ended: final counts printed, or main's catch reached
Terminated == pc \in {"done", "fatal"}

\* how far the script has come within one chunk
ChunkStep ==
  CASE pc = "primary" -> 2 * attempt - 1
    [] pc = "retryDelay" -> 2 * attempt
    [] pc = "secondary" -> 2 * 3 + 1
    [] pc = "synthetic" -> 2 * 3 + 2
    [] pc = "verify" -> 2 * 3 + 3
    [] pc = "insert" -> 2 * 3 + 4
    [] pc = "pace" -> 2 * 3 + 5
    [] OTHER -> 0

\* how far the script has come within one url
UrlStep ==
  CASE pc \in {"main", "load", "forUrl"} -> 0
    [] pc = "scrape" -> 1
    [] pc = "checkContent" -> 2
    [] OTHER -> 3 + i

\* the position of the script in the run: url, then step within the url,
\* then step within the chunk
Progress ==
  IF pc = "main" THEN 0
  ELSE IF pc = "load" THEN 1
  ELSE 2 + ((urlIdx - 1) * (MaxChunks + 4) + UrlStep) * (2 * 3 + 6) + ChunkStep

\* C15: with every external call returning or throwing, the run reaches Done
\* or main's catch; until then every step moves the script strictly forward
\* (no url, chunk or run is started again), and an ended run stays ended
C15_RunTerminates ==
  /\ <>Terminated
  /\ [][/\ ~Terminated /\ ~Terminated' => Progress' > Progress
        /\ Terminated => pc' = pc
        /\ urlIdx' >= urlIdx
        /\ Len(scraped') >= Len(scraped)]_vars
  /\ [](Len(scraped) <= Len(f1data) /\ urlIdx <= Len(f1data) + 1)

\* C15 witness: a run that went through retries, all tiers and both urls
\* has reached Done
C15_Witness ==
  /\ pc = "done"
  /\ lastReport.kind = "final"
  /\ Len(scraped) = Len(f1data)
  /\ acked >= 1
  /\ threw >= 1
  /\ mismatches >= 1

C18_ReconcileIdempotent ==
  /\ Len(recOut) >= 1 =>
       /\ Len(recOut[1]) = LargeDimension
       /\ Len(recOut[1]) = LargeResult([kind |-> "flat", len |-> Len(recIn)]).len
       /\ \A k \in 1..LargeDimension :
            recOut[1][k] = IF k <= Len(recIn) THEN recIn[k] ELSE 0
       /\ Len(recIn) = LargeDimension => recOut[1] = recIn
  /\ Len(recOut) = 2 => recOut[2] = recOut[1]

\* C18 witness: an empty answer was padded to 1536 zeros and reconciled again
C18_Witness ==
  /\ recIn = <<>>
  /\ Len(recOut) = 2
  /\ recOut[1] = [k \in 1..LargeDimension |-> 0]
  /\ recOut[2] = recOut[1]

\* a chunk of trimmed length >= 10 has been taken up and not yet counted
ChunkOpen == pc \in {"primary", "retryDelay", "secondary", "synthetic", "verify", "insert"}

\* C19: every chunk of trimmed length >= 10 is counted exactly once: the
\* counts printed after a url and at the end add up to the chunks of that
\* length processed so far, successCount is the number of acknowledged
\* inserts, and a chunk raises exactly one of the two counters
C19_EveryChunkCountedOnce ==
  /\ [](/\ successCount = acked
        /\ errorCount = threw + mismatches
        /\ successCount + errorCount = eligible - (IF ChunkOpen THEN 1 ELSE 0))
  /\ [][/\ eligible' # eligible <=>
             /\ pc = "forChunk" /\ pc' = "primary"
             /\ i < Len(chunks)
             /\ Len(Trim(chunks[i + 1])) >= MinChunkLength
             /\ eligible' = eligible + 1
        /\ ChunkOpen /\ ~ChunkOpen' =>
             (successCount' + errorCount') = (successCount + errorCount) + 1
        /\ ~ChunkOpen => UNCHANGED <<successCount, errorCount>>
        /\ reportCount' # reportCount =>
             /\ lastReport'.success + lastReport'.errors = eligible
             /\ lastReport'.success = acked
             /\ lastReport'.errors = threw + mismatches]_vars

\* C19 witness: the final counts are printed after one acknowledged insert,
\* one throwing insert and one rejected vector
C19_Witness ==
  /\ pc = "done"
  /\ lastReport = [kind |-> "final", success |-> 1, errors |-> 2]
  /\ acked = 1
  /\ threw = 1
  /\ mismatches = 1
  /\ eligible = 3

\* C20: records are written in source order: every insert of the current
\* iteration is for the url fetched last, the chunk_index of the inserts of a
\* url strictly increases, and a record's chunk_index is the position of its
\* text in the splitter's output, whatever was skipped or rejected before it
C20_RecordsInSourceOrder ==
  /\ [](\A k \in DOMAIN insertLog :
          /\ scraped # <<>>
          /\ insertLog[k].source_url = scraped[Len(scraped)]
          /\ insertLog[k].chunk_index + 1 \in DOMAIN chunks
          /\ insertLog[k].text = chunks[insertLog[k].chunk_index + 1]
          /\ \A j \in 1..(k - 1) : insertLog[j].chunk_index < insertLog[k].chunk_index)
  /\ [][/\ Len(insertLog') = Len(insertLog) + 1 =>
             /\ pc = "insert"
             /\ insertLog'[Len(insertLog')].chunk_index = i
             /\ insertLog'[Len(insertLog')].source_url = f1data[Len(scraped)]
             /\ SubSeq(insertLog', 1, Len(insertLog)) = insertLog
        /\ Len(scraped') # Len(scraped) =>
             /\ insertLog = <<>> /\ insertLog' = <<>>
             /\ scraped' = Append(scraped, f1data[Len(scraped) + 1])]_vars

\* C20 witness: in the second url the first chunk was skipped as too short
\* and the second is written with chunk_index 1, after an insert for the
\* first url
C20_Witness ==
  /\ pc = "pace"
  /\ urlIdx = 2
  /\ acked = 2
  /\ chunks[1] = TextPadded
  /\ Len(insertLog) = 1
  /\ insertLog[1].chunk_index = 1
  /\ insertLog[1].source_url = f1data[2]

====
